---- MODULE Spec2Model ----
(***************************************************************************)
(* Model of the MSS automation tools: the backspace normalizer             *)
(* (utils/text_processing.py), the pattern classifier                      *)
(* (subscriber_management/subscriber_checker.py and the legacy main.py)    *)
(* and the channel drainer (subscriber_management/mml_client.py and the    *)
(* legacy main.py).                                                        *)
(*                                                                         *)
(* Text is a sequence of one-character strings.  BS stands for the single  *)
(* character 0x08 and BAD for a byte that is no valid UTF-8.               *)
(***************************************************************************)
EXTENDS Integers, Sequences, FiniteSets, TLC

VARIABLES
    nPc,        \* normalizer driver: "in" | "once" | "twice"
    nInput,     \* the string handed to process_backspaces
    nOut,       \* process_backspaces(nInput)
    nOut2,      \* process_backspaces(nOut)
    cPc,        \* classifier driver: "in" | "done"
    cImpl,      \* "checker" (SubscriberChecker) | "main" (main.py)
    cText,      \* the text handed to the classifier
    cFound,     \* the verdict returned
    cLog,       \* the records the classifier logged, <<level, message>>
    dPc,        \* drain: "call" | "loop" | "returned" | "raised"
    dImpl,      \* "mml" (MMLClient._read_channel_output) | "main" (stream_channel_output)
    dTimeout,   \* the timeout argument, in polls of 0.1 s
    now,        \* time.time(), in polls of 0.1 s
    dStart,     \* the local start
    dOutput,    \* the local output: the decoded chunks appended so far
    dResult,    \* the string returned
    dExit,      \* which break ended the loop: "none" | "idle" | "closed" | "recv_timeout"
    dRaised,    \* an exception left the drain
    chRecvd,    \* history: the non-empty byte chunks recv() returned, in order
    dBegin,     \* history: time.time() when the drain was called
    dLastByte,  \* history: time.time() at the last chunk appended, else dBegin
    rPc,        \* run: "start" | "loop" | "shell" | "banner" | "send" | "drain" |
                \*      "checked" | "exited" | "crashed"
    rImpl,      \* "search" (run_subscriber_search.py) | "main" (main.py)
    rN,         \* number of configured servers
    rIdx,       \* the server the for loop is at
    rCmd,       \* the command the command loop is at
    rConn,      \* per server, the SSH connection: "none" | "open" | "closed"
    rChan,      \* per server, the interactive channel: "none" | "open" | "closed"
    rBanner,    \* the text the banner drain returned
    rOutputs,   \* the outputs list of the running check
    rFoundError, \* found_error of execute_commands
    rFound,     \* found, as the check returned it
    rText,      \* output_text, as the check returned it
    rError,     \* the text of the exception the environment raised in this check
    report,     \* the lines of logs/summary.txt
    rExit,      \* the exit code of the process: "none" | "0" | "1"
    rContacted, \* history: the servers client.connect was called for, in order
    rSent,      \* history: <<server, command>> for every command sent, in order
    pPc,        \* connect_device: "idle" | "ready" | "done"
    pImpl,      \* "package" (phone_automation/phone_call_automation.py) |
                \* "legacy" (phone_call_automation.py)
    pIpPort,    \* the ip_port argument
    pCode,      \* result.returncode of adb connect, -1 before it ran
    pStdout,    \* result.stdout
    pRaised,    \* what subprocess.run raised: "none" | "TimeoutExpired" |
                \*                             "FileNotFoundError" | "OSError"
    pResult,    \* what connect_device returned
    mClient,    \* MMLClient.client: "none" | "new" (an SSHClient that never
                \*                   connected) | "open" | "closed"
    mChannel,   \* MMLClient.channel: "none" | "open" | "closed"
    mWith,      \* inside a with-block of the client
    mCalls,     \* how many methods of the client were called
    mLast,      \* the method called last: "none" | "connect" | "enter" |
                \*                         "execute" | "disconnect" | "exit"
    mRaised,    \* what the last call raised: "none" | "RuntimeError" | "socket.error"
    mSentNow,   \* the last call put bytes on the channel
    mConnected, \* history: a connect() returned True and no disconnect() followed
    bPc,        \* device bridge: "idle" | "ready" | "run" | "ec_key" | "ec_others" |
                \*   "an_state" | "an_key" | "an_verify" | "mp_connect" | "mp_call" | "done"
    bImpl,      \* "package" | "legacy"
    bN,         \* number of phones in the phone table
    bOp,        \* the operation called
    bDevice,    \* the phone the operation is about (the caller, for make_phone_call)
    bTo,        \* to_phone of make_phone_call
    bEndAll,    \* end_all of end_call
    bDuration,  \* duration of make_phone_call, 0 for None
    bOther,     \* the phone the loop of end_call is at
    bState,     \* call_state of answer_call
    bStdout,    \* result.stdout of the last dumpsys
    bConnOut,   \* result.stdout of adb connect
    bSuccess,   \* success of make_phone_call
    bResult,    \* what the operation returned: "none" | "True" | "False" | "None" |
                \*   "IDLE" | "RINGING" | "OFFHOOK" | "UNKNOWN" | "raised"
    bRuns,      \* history: <<command, phone, outcome>> of every subprocess.run
    gPc,        \* configs/config.py: "idle" | "servers" | "phones" | "loaded" |
                \*                    "started" | "exited"
    gServersFile, \* what SERVERS.yaml is
    gPhonesFile,  \* what PHONES.yaml is
    gServers,   \* how many entries SERVERS holds, -1 before it is loaded
    gPhones,    \* how many entries PHONES holds, -1 before it is loaded
    gPrinted,   \* the messages printed
    gExit       \* the exit code of the process: "none" | "1"

nvars == <<nPc, nInput, nOut, nOut2>>

cvars == <<cPc, cImpl, cText, cFound, cLog>>

dvars ==
    <<dPc, dImpl, dTimeout, now, dStart, dOutput, dResult, dExit, dRaised,
      chRecvd, dBegin, dLastByte>>

rvars ==
    <<rPc, rImpl, rN, rIdx, rCmd, rConn, rChan, rBanner, rOutputs, rFoundError,
      rFound, rText, rError, report, rExit, rContacted, rSent>>

pvars == <<pPc, pImpl, pIpPort, pCode, pStdout, pRaised, pResult>>

mvars == <<mClient, mChannel, mWith, mCalls, mLast, mRaised, mSentNow, mConnected>>

bvars ==
    <<bPc, bImpl, bN, bOp, bDevice, bTo, bEndAll, bDuration, bOther, bState, bStdout,
      bConnOut, bSuccess, bResult, bRuns>>

gvars == <<gPc, gServersFile, gPhonesFile, gServers, gPhones, gPrinted, gExit>>

vars == <<nvars, cvars, dvars, rvars, pvars, mvars, bvars, gvars>>

\* what an action of one component leaves alone: the other components
exceptN == <<cvars, dvars, rvars, pvars, mvars, bvars, gvars>>

exceptC == <<nvars, dvars, rvars, pvars, mvars, bvars, gvars>>

exceptD == <<nvars, cvars, rvars, pvars, mvars, bvars, gvars>>

exceptR == <<nvars, cvars, dvars, pvars, mvars, bvars, gvars>>

exceptP == <<nvars, cvars, dvars, rvars, mvars, bvars, gvars>>

exceptM == <<nvars, cvars, dvars, rvars, pvars, bvars, gvars>>

exceptB == <<nvars, cvars, dvars, rvars, pvars, mvars, gvars>>

exceptG == <<nvars, cvars, dvars, rvars, pvars, mvars, bvars>>

----------------------------------------------------------------------------
(* Bounds *)

\* longest input string handed to the normalizer
MaxLen == 4

\* most fragments concatenated into one classifier text
MaxFrags == 3

\* most non-empty chunks the channel delivers during one drain
MaxChunks == 2

\* most servers configured in SERVERS.yaml
MaxServers == 2

\* most method calls on one MMLClient
MaxCalls == 4

\* most phones in PHONES.yaml
MaxPhones == 3

\* most lines of a telephony dump
MaxLines == 2

----------------------------------------------------------------------------
(* Characters and strings *)

BS == "<BS>"

BAD == "<BAD>"

\* every sequence over S of length at most n
SeqsUpTo(S, n) == UNION {[1..k -> S] : k \in 0..n}

RECURSIVE Join(_)
\* "".join(parts)
Join(parts) ==
    IF parts = <<>> THEN <<>> ELSE Head(parts) \o Join(Tail(parts))

----------------------------------------------------------------------------
(* utils/text_processing.py *)

\* a variant whose pop is not guarded by "if result": list.pop() on an empty
\* list raises IndexError, shown as the one-element text <<"IndexError">>
RECURSIVE BackspaceLoopUnguarded(_, _, _)
BackspaceLoopUnguarded(output, i, result) ==
    IF i > Len(output) THEN result
    ELSE IF output[i] = BS
         THEN IF result = <<>> THEN <<"IndexError">>
              ELSE BackspaceLoopUnguarded(output, i + 1, SubSeq(result, 1, Len(result) - 1))
         ELSE BackspaceLoopUnguarded(output, i + 1, Append(result, output[i]))

\* the for loop of process_backspaces: result after the characters i.. of
\* output have been scanned, starting from the buffer result
RECURSIVE BackspaceLoop(_, _, _)
BackspaceLoop(output, i, result) ==
    IF i > Len(output) THEN result
    ELSE IF output[i] = BS
         THEN IF result # <<>>
              THEN BackspaceLoop(output, i + 1, SubSeq(result, 1, Len(result) - 1))
              ELSE BackspaceLoop(output, i + 1, result)
         ELSE BackspaceLoop(output, i + 1, Append(result, output[i]))

\* a variant that deletes "character, backspace" pairs in one pass, as
\* re.sub('[^\x08]\x08', '', output) would
RECURSIVE BackspacePairs(_, _)
BackspacePairs(output, i) ==
    IF i > Len(output) THEN <<>>
    ELSE IF i < Len(output) /\ output[i] # BS /\ output[i + 1] = BS
         THEN BackspacePairs(output, i + 2)
         ELSE <<output[i]>> \o BackspacePairs(output, i + 1)

process_backspaces_pairs(output) == BackspacePairs(output, 1)

process_backspaces_unguarded(output) == BackspaceLoopUnguarded(output, 1, <<>>)

\* a variant whose loop starts at the second character (for char in output[1:])
process_backspaces_skipfirst(output) == BackspaceLoop(output, 2, <<>>)

process_backspaces(output) == BackspaceLoop(output, 1, <<>>)

----------------------------------------------------------------------------
(* Normalizer driver: an input string, normalized, then normalized again *)

NormAlphabet == {"A", "B", "C", BS}

NormIdle ==
    /\ nPc = "off"
    /\ nInput = <<>>
    /\ nOut = <<>>
    /\ nOut2 = <<>>

NormInit ==
    /\ nPc = "in"
    /\ nInput \in SeqsUpTo(NormAlphabet, MaxLen)
    /\ nOut = <<>>
    /\ nOut2 = <<>>

Normalize ==
    /\ nPc = "in"
    /\ nOut' = process_backspaces(nInput)
    /\ nPc' = "once"
    /\ UNCHANGED <<nInput, nOut2, exceptN>>

NormalizeAgain ==
    /\ nPc = "once"
    /\ nOut2' = process_backspaces(nOut)
    /\ nPc' = "twice"
    /\ UNCHANGED <<nInput, nOut, exceptN>>

NormNext ==
    \/ Normalize
    \/ NormalizeAgain


----------------------------------------------------------------------------
(* configs/config.py: detection patterns *)
UNKNOWN_SUBSCRIBER ==
    <<"U", "N", "K", "N", "O", "W", "N", " ", "S", "U", "B", "S",
      "C", "R", "I", "B", "E", "R">>

DX_ERROR ==
    <<"D", "X", " ", "E", "R", "R", "O", "R">>

COMMAND_EXECUTION_FAILED ==
    <<"C", "O", "M", "M", "A", "N", "D", " ", "E", "X", "E", "C",
      "U", "T", "I", "O", "N", " ", "F", "A", "I", "L", "E", "D">>

SUBSCRIBER_INFORMATION ==
    <<"S", "U", "B", "S", "C", "R", "I", "B", "E", "R", " ", "I",
      "N", "F", "O", "R", "M", "A", "T", "I", "O", "N">>

MOBILE_COUNTRY_CODE ==
    <<"M", "O", "B", "I", "L", "E", " ", "C", "O", "U", "N", "T",
      "R", "Y", " ", "C", "O", "D", "E">>

SUBSCRIBER_NOT_FOUND_PATTERNS ==
    <<UNKNOWN_SUBSCRIBER, DX_ERROR, COMMAND_EXECUTION_FAILED>>

SUBSCRIBER_FOUND_PATTERNS ==
    <<SUBSCRIBER_INFORMATION, MOBILE_COUNTRY_CODE>>

\* main.py tests its own literals: line 202 and line 205
LegacyNotFoundPatterns ==
    <<UNKNOWN_SUBSCRIBER, COMMAND_EXECUTION_FAILED>>

LegacyFoundPatterns ==
    <<SUBSCRIBER_INFORMATION, MOBILE_COUNTRY_CODE>>

----------------------------------------------------------------------------
(* str.upper() and the "in" operator on strings *)

Lowers ==
    <<"a", "b", "c", "d", "e", "f", "g", "h", "i", "j", "k", "l", "m",
      "n", "o", "p", "q", "r", "s", "t", "u", "v", "w", "x", "y", "z">>

Uppers ==
    <<"A", "B", "C", "D", "E", "F", "G", "H", "I", "J", "K", "L", "M",
      "N", "O", "P", "Q", "R", "S", "T", "U", "V", "W", "X", "Y", "Z">>

UpperChar(c) ==
    IF \E k \in 1..Len(Lowers) : Lowers[k] = c
    THEN Uppers[CHOOSE k \in 1..Len(Lowers) : Lowers[k] = c]
    ELSE c

\* text.upper()
Upper(text) == [i \in 1..Len(text) |-> UpperChar(text[i])]

\* pattern in text
Contains(text, pattern) ==
    \E i \in 1..(Len(text) - Len(pattern) + 1) :
        SubSeq(text, i, i + Len(pattern) - 1) = pattern

\* any(pattern in text for pattern in patterns)
AnyIn(patterns, text) ==
    \E k \in 1..Len(patterns) : Contains(text, patterns[k])

----------------------------------------------------------------------------
(* Texts handed to the classifier: concatenations of fragments *)

FragUnknown ==
    <<"u", "n", "k", "n", "o", "w", "n", " ">>

FragSubscriber ==
    <<"S", "u", "b", "s", "c", "r", "i", "b", "e", "r">>

FragInformation ==
    <<" ", "I", "N", "F", "O", "R", "M", "A", "T", "I", "O", "N">>

FragDxError ==
    <<"D", "X", " ", "E", "R", "R", "O", "R">>

FragCommandFailed ==
    <<"c", "o", "m", "m", "a", "n", "d", " ", "e", "x", "e", "c",
      "u", "t", "i", "o", "n", " ", "f", "a", "i", "l", "e", "d">>

FragCountryCode ==
    <<"M", "o", "b", "i", "l", "e", " ", "C", "o", "u", "n", "t",
      "r", "y", " ", "C", "o", "d", "e">>

FragNoise ==
    <<"o", "k", "\n">>

Fragments ==
    {FragUnknown, FragSubscriber, FragInformation, FragDxError,
     FragCommandFailed, FragCountryCode, FragNoise}

ClassifierTexts == {Join(fs) : fs \in SeqsUpTo(Fragments, MaxFrags)}

----------------------------------------------------------------------------
(* subscriber_management/subscriber_checker.py: _analyze_output *)

NotPresentRecord == <<"INFO", "MSISDN NOT PRESENT">>

PresentRecord == <<"INFO", "MSISDN PRESENT">>

AmbiguousRecord ==
    <<"WARNING", "Could not definitively determine presence; treating as NOT FOUND.">>

\* a variant that tests the "found" patterns before the "not found" patterns
analyze_output_found_first(output_text) ==
    LET upper_output == Upper(output_text)
    IN  IF AnyIn(SUBSCRIBER_FOUND_PATTERNS, upper_output)
        THEN [found |-> TRUE, record |-> PresentRecord]
        ELSE IF AnyIn(SUBSCRIBER_NOT_FOUND_PATTERNS, upper_output)
        THEN [found |-> FALSE, record |-> NotPresentRecord]
        ELSE [found |-> FALSE, record |-> AmbiguousRecord]

\* a variant that matches the text as received, without output_text.upper()
analyze_output_case_sensitive(output_text) ==
    LET upper_output == output_text
    IN  IF AnyIn(SUBSCRIBER_NOT_FOUND_PATTERNS, upper_output)
        THEN [found |-> FALSE, record |-> NotPresentRecord]
        ELSE IF AnyIn(SUBSCRIBER_FOUND_PATTERNS, upper_output)
        THEN [found |-> TRUE, record |-> PresentRecord]
        ELSE [found |-> FALSE, record |-> AmbiguousRecord]

\* a variant whose last branch reports like the definitive branch
analyze_output_silent_default(output_text) ==
    LET upper_output == Upper(output_text)
    IN  IF AnyIn(SUBSCRIBER_NOT_FOUND_PATTERNS, upper_output)
        THEN [found |-> FALSE, record |-> NotPresentRecord]
        ELSE IF AnyIn(SUBSCRIBER_FOUND_PATTERNS, upper_output)
        THEN [found |-> TRUE, record |-> PresentRecord]
        ELSE [found |-> FALSE, record |-> NotPresentRecord]

\* the value returned and the log record written
analyze_output(output_text) ==
    LET upper_output == Upper(output_text)
    IN  IF AnyIn(SUBSCRIBER_NOT_FOUND_PATTERNS, upper_output)
        THEN [found |-> FALSE, record |-> NotPresentRecord]
        ELSE IF AnyIn(SUBSCRIBER_FOUND_PATTERNS, upper_output)
        THEN [found |-> TRUE, record |-> PresentRecord]
        ELSE [found |-> FALSE, record |-> AmbiguousRecord]

\* main.py, connect_and_check: "Determine presence"
connect_and_check_presence(output_text) ==
    LET upper_out == Upper(output_text)
    IN  IF AnyIn(LegacyNotFoundPatterns, upper_out)
        THEN [found |-> FALSE, record |-> NotPresentRecord]
        ELSE IF AnyIn(LegacyFoundPatterns, upper_out)
        THEN [found |-> TRUE, record |-> PresentRecord]
        ELSE [found |-> FALSE, record |-> AmbiguousRecord]

ClassIdle ==
    /\ cPc = "off"
    /\ cImpl = "checker"
    /\ cText = <<>>
    /\ cFound = FALSE
    /\ cLog = <<>>

ClassInit ==
    /\ cPc = "in"
    /\ cImpl \in {"checker", "main"}
    /\ cText \in ClassifierTexts
    /\ cFound = FALSE
    /\ cLog = <<>>

AnalyzeOutput ==
    /\ cPc = "in"
    /\ cImpl = "checker"
    /\ LET r == analyze_output(cText)
       IN  /\ cFound' = r.found
           /\ cLog' = Append(cLog, r.record)
    /\ cPc' = "done"
    /\ UNCHANGED <<cImpl, cText, exceptC>>

LegacyDeterminePresence ==
    /\ cPc = "in"
    /\ cImpl = "main"
    /\ LET r == connect_and_check_presence(cText)
       IN  /\ cFound' = r.found
           /\ cLog' = Append(cLog, r.record)
    /\ cPc' = "done"
    /\ UNCHANGED <<cImpl, cText, exceptC>>

ClassNext ==
    \/ AnalyzeOutput
    \/ LegacyDeterminePresence

----------------------------------------------------------------------------
(* subscriber_management/mml_client.py: _read_channel_output, and         *)
(* main.py: stream_channel_output.  Time is counted in polls of 0.1 s; a   *)
(* sleep lasts one poll and nothing else takes time.                       *)

\* time.sleep(0.1), in polls
PollTicks == 1

\* connect(): self._read_channel_output(timeout=1.0), in polls
BannerTimeout == 10

\* configs/config.py: READ_TIMEOUT = 6.0, in polls
READ_TIMEOUT == 60

DrainTimeouts == {BannerTimeout, READ_TIMEOUT}

\* the clock never passes this within the chunks allowed
TimeCap == (MaxChunks + 2) * (READ_TIMEOUT + PollTicks)

\* bytes.decode('utf-8', errors='ignore'): undecodable bytes are dropped
Decode(raw) == SelectSeq(raw, LAMBDA c : c # BAD)

ChunkAB == <<"A", "B">>

ChunkBsC == <<BS, "C">>

ChunkBad == <<BAD>>

\* what one recv(4096) can return when bytes are there
Chunks == {ChunkAB, ChunkBsC, ChunkBad}

\* a variant without the "except socket.timeout" clause
AfterRecv_uncaught(outcome, data) ==
    IF outcome = "socket.timeout" THEN "raise"
    ELSE IF data = <<>> THEN "break"
    ELSE "append"

\* lines 79-85: what the loop does with the outcome of recv
AfterRecv(outcome, data) ==
    IF outcome = "socket.timeout" THEN "break"
    ELSE IF data = <<>> THEN "break"
    ELSE "append"

\* a variant that leaves start alone after a read
StartAfterRead_kept(start, t) == start

\* line 85: start = time.time()
StartAfterRead(start, t) == t

\* a variant that sleeps a whole second: time.sleep(1)
AfterSleep_second(t) == t + 10 * PollTicks

\* line 87: time.sleep(0.1)
AfterSleep(t) == t + PollTicks

\* line 88: time.time() - start > timeout
TimedOut(t, start, timeout) == t - start > timeout

\* a variant that normalizes each chunk before joining them
DrainResult_per_chunk(impl, output) ==
    IF impl = "mml"
    THEN Join([i \in 1..Len(output) |-> process_backspaces(output[i])])
    ELSE Join(output)

\* lines 91-92 (and main.py line 145): the value returned
DrainResult(impl, output) ==
    IF impl = "mml" THEN process_backspaces(Join(output)) ELSE Join(output)

DrainIdle ==
    /\ dPc = "off"
    /\ dImpl = "mml"
    /\ dTimeout = 0
    /\ now = 0
    /\ dStart = 0
    /\ dOutput = <<>>
    /\ dResult = <<>>
    /\ dExit = "none"
    /\ dRaised = FALSE
    /\ chRecvd = <<>>
    /\ dBegin = 0
    /\ dLastByte = 0

DrainInit ==
    /\ dPc = "call"
    /\ dImpl \in {"mml", "main"}
    /\ dTimeout \in DrainTimeouts
    /\ now = 0
    /\ dStart = 0
    /\ dOutput = <<>>
    /\ dResult = <<>>
    /\ dExit = "none"
    /\ dRaised = FALSE
    /\ chRecvd = <<>>
    /\ dBegin = 0
    /\ dLastByte = 0

\* the loop is left: join, normalize, return
DrainReturn(output, why) ==
    /\ dPc' = "returned"
    /\ dExit' = why
    /\ dResult' = DrainResult(dImpl, output)

\* lines 73-74: output = [], start = time.time()
DrainEnter ==
    /\ dPc = "call"
    /\ dPc' = "loop"
    /\ dStart' = now
    /\ dOutput' = <<>>
    /\ dBegin' = now
    /\ dLastByte' = now
    /\ UNCHANGED <<dImpl, dTimeout, now, dResult, dExit, dRaised, chRecvd, exceptD>>

\* one iteration: recv_ready() is true and recv() returns the bytes raw
DrainRecvData(raw) ==
    /\ dPc = "loop"
    /\ Len(chRecvd) < MaxChunks
    /\ chRecvd' = Append(chRecvd, raw)
    /\ LET data == Decode(raw)
           todo == AfterRecv("data", data)
           start1 == StartAfterRead(dStart, now)
       IN  IF todo = "append"
           THEN /\ dOutput' = Append(dOutput, data)
                /\ dStart' = start1
                /\ dLastByte' = now
                /\ IF TimedOut(now, start1, dTimeout)
                   THEN DrainReturn(Append(dOutput, data), "idle")
                   ELSE UNCHANGED <<dPc, dExit, dResult>>
           ELSE /\ DrainReturn(dOutput, "closed")
                /\ UNCHANGED <<dOutput, dStart, dLastByte>>
    /\ UNCHANGED <<dImpl, dTimeout, now, dRaised, dBegin, exceptD>>

\* one iteration: recv_ready() is true and recv() returns b'' (channel closed)
DrainRecvClosed ==
    /\ dPc = "loop"
    /\ IF AfterRecv("data", Decode(<<>>)) = "break"
       THEN DrainReturn(dOutput, "closed")
       ELSE UNCHANGED <<dPc, dExit, dResult>>
    /\ UNCHANGED <<dImpl, dTimeout, now, dStart, dOutput, dRaised, chRecvd,
                   dBegin, dLastByte, exceptD>>

\* one iteration: recv_ready() is true and recv() raises socket.timeout
DrainRecvTimeout ==
    /\ dPc = "loop"
    /\ IF AfterRecv("socket.timeout", <<>>) = "break"
       THEN /\ DrainReturn(dOutput, "recv_timeout")
            /\ UNCHANGED dRaised
       ELSE /\ dPc' = "raised"
            /\ dRaised' = TRUE
            /\ dExit' = "recv_timeout"
            /\ UNCHANGED dResult
    /\ UNCHANGED <<dImpl, dTimeout, now, dStart, dOutput, chRecvd, dBegin,
                   dLastByte, exceptD>>

\* one iteration: recv_ready() is false: sleep, then test the idle time
DrainSleep ==
    /\ dPc = "loop"
    /\ now < TimeCap
    /\ now' = AfterSleep(now)
    /\ IF TimedOut(now', dStart, dTimeout)
       THEN DrainReturn(dOutput, "idle")
       ELSE UNCHANGED <<dPc, dExit, dResult>>
    /\ UNCHANGED <<dImpl, dTimeout, dStart, dOutput, dRaised, chRecvd, dBegin,
                   dLastByte, exceptD>>

DrainNext ==
    \/ DrainEnter
    \/ \E raw \in Chunks : DrainRecvData(raw)
    \/ DrainRecvClosed
    \/ DrainRecvTimeout
    \/ DrainSleep

----------------------------------------------------------------------------
(* The run over the configured servers: run_subscriber_search.py with    *)
(* SubscriberChecker and MMLClient ("search"), and main.py ("main").       *)

\* the subject of the examples
MSISDN ==
    <<"4", "9", "1", "5", "7", "8", "1", "9", "9", "3", "2", "1",
      "4">>

\* MML_COMMANDS["CHECK_SUBSCRIBER"], formatted with the msisdn
CmdCheckSubscriber ==
    <<"Z", "M", "V", "O", ":", "M", "S", "I", "S", "D", "N", "=",
      "4", "9", "1", "5", "7", "8", "1", "9", "9", "3", "2", "1",
      "4", ":", ":", ";">>

\* main.py, lines 177-181
CmdZmvo ==
    <<"Z", "M", "V", "O">>

CmdMsisdn ==
    <<"M", "S", "I", "S", "D", "N", "=", "4", "9", "1", "5", "7",
      "8", "1", "9", "9", "3", "2", "1", "4">>

CmdSemicolon ==
    <<";">>

\* the fixed command sequence of each tool
Commands(impl) ==
    IF impl = "search" THEN <<CmdCheckSubscriber>>
    ELSE <<CmdZmvo, CmdMsisdn, CmdSemicolon>>

\* main.py: SERVERS has two entries
LegacyServerCount == 2

ServerNames == <<"MSSTB4", "MSSTB5", "MSSTB6", "MSSTB7">>

ServerIps == <<"172.29.108.42", "172.29.108.106", "172.29.108.170", "172.29.108.234">>

\* SERVERS[i]
Server(i) == [name |-> ServerNames[i], ip |-> ServerIps[i]]

ServerIds == 1..MaxServers

ConnectionFailedText ==
    <<"C", "o", "n", "n", "e", "c", "t", "i", "o", "n", " ", "f",
      "a", "i", "l", "e", "d">>

ErrTimedOut ==
    <<"t", "i", "m", "e", "d", " ", "o", "u", "t">>

ErrAuthentication ==
    <<"A", "u", "t", "h", "e", "n", "t", "i", "c", "a", "t", "i",
      "o", "n", " ", "f", "a", "i", "l", "e", "d", ".">>

ErrChannel ==
    <<"C", "h", "a", "n", "n", "e", "l", " ", "o", "p", "e", "n",
      " ", "f", "a", "i", "l", "e", "d">>

ErrSocketClosed ==
    <<"S", "o", "c", "k", "e", "t", " ", "i", "s", " ", "c", "l",
      "o", "s", "e", "d">>

\* what client.connect can raise
ConnectErrors == {ErrTimedOut, ErrAuthentication}

\* what a drain can return for the banner and for a command
BannerTexts == {<<>>, SUBSCRIBER_INFORMATION}

Responses ==
    {<<>>, FragUnknown, FragSubscriber, FragUnknown \o FragSubscriber,
     FragSubscriber \o FragInformation, FragDxError,
     FragDxError \o FragSubscriber \o FragInformation}

\* '-' * 80
Dashes == [i \in 1..80 |-> "-"]

\* f"\n>>> {command}\n{output}\n{'-'*80}\n"
FormatItem(command, output) ==
    <<"\n", ">", ">", ">", " ">> \o command \o <<"\n">> \o output \o <<"\n">>
        \o Dashes \o <<"\n">>

\* _format_outputs, and "".join(full_output) of main.py
format_outputs(outputs) ==
    Join([i \in 1..Len(outputs) |-> FormatItem(outputs[i].command, outputs[i].output)])

\* the markers that stop the command sequence
StopMarkers == <<UNKNOWN_SUBSCRIBER, DX_ERROR>>

\* a variant that looks for the markers in all the output received so far
error_detected_cumulative(output, outputs) ==
    AnyIn(StopMarkers, Upper(Join([i \in 1..Len(outputs) |-> outputs[i].output])))

\* execute_commands line 150, main.py line 191: the markers are looked for in
\* the output of the command just run; outputs is the list it was appended to
error_detected(output, outputs) ==
    AnyIn(StopMarkers, Upper(output))

\* a variant of connect() without its try/except
OnConnectError_uncaught(impl, err) ==
    [raised |-> TRUE, found |-> FALSE, text |-> err]

\* client.connect raised err: connect() returns False and check_msisdn
\* (False, "Connection failed"); main.py returns (False, str(e))
OnConnectError(impl, err) ==
    [raised |-> FALSE, found |-> FALSE,
     text |-> IF impl = "search" THEN ConnectionFailedText ELSE err]

\* invoke_shell raised err: inside the try of connect(), outside the try of
\* main.py
OnShellError(impl, err) ==
    IF impl = "search"
    THEN [raised |-> FALSE, found |-> FALSE, text |-> ConnectionFailedText]
    ELSE [raised |-> TRUE, found |-> FALSE, text |-> err]

\* the verdict of each tool on the transcript
Classify(impl, text) ==
    IF impl = "search" THEN analyze_output(text).found
    ELSE connect_and_check_presence(text).found

\* ReportGenerator._initialize_report, and main.py lines 221-224
HeaderLines ==
    << <<"MSISDN Lookup Report - ", "timestamp">>,
       <<"Searching for: ", "4915781993214">>,
       <<"============================================================">>,
       <<>> >>

\* the line of one server
VerdictLine(impl, i, found) ==
    IF impl = "search"
    THEN <<Server(i).name, " (", Server(i).ip, ") - ", IF found THEN "FOUND" ELSE "NOT FOUND">>
    ELSE <<Server(i).name, " (", Server(i).ip, ") - Found=", IF found THEN "True" ELSE "False">>

\* a variant that opens the file with mode "w"
add_result_overwrite(lines, impl, i, found) ==
    <<VerdictLine(impl, i, found)>>

\* ReportGenerator.add_result, and main.py lines 228-229
add_result(lines, impl, i, found) ==
    Append(lines, VerdictLine(impl, i, found))

FinalLine(overall_found) ==
    IF overall_found THEN <<"RESULT: MSISDN found on one or more servers">>
    ELSE <<"RESULT: MSISDN not found on any server">>

\* ReportGenerator.finalize; main.py writes no final line
finalize(lines, impl, overall_found) ==
    IF impl = "search"
    THEN lines \o << <<>>, <<"============================================================">>,
                     FinalLine(overall_found) >>
    ELSE lines

\* exit(0 if found else 1); main.py returns from main and ends with code 0
ExitCode(impl, found) ==
    IF impl = "search" THEN (IF found THEN "0" ELSE "1") ELSE "0"

----------------------------------------------------------------------------
(* The run as a state machine.  One step is one call into the environment  *)
(* (client.connect, invoke_shell, a drain, a send) together with the code   *)
(* that handles what the call returned or raised.                           *)

NoServers == [i \in ServerIds |-> "none"]

RunIdle ==
    /\ rPc = "idle" /\ rImpl = "none" /\ rN = 0 /\ rIdx = 0 /\ rCmd = 0
    /\ rConn = NoServers /\ rChan = NoServers
    /\ rBanner = <<>> /\ rOutputs = <<>> /\ rFoundError = FALSE
    /\ rFound = FALSE /\ rText = <<>> /\ rError = <<>>
    /\ report = <<>> /\ rExit = "none"
    /\ rContacted = <<>> /\ rSent = <<>>

RunInit ==
    /\ rPc = "start"
    /\ rImpl \in {"search", "main"}
    /\ rN \in IF rImpl = "search" THEN 1..MaxServers ELSE {LegacyServerCount}
    /\ rIdx = 0 /\ rCmd = 0
    /\ rConn = NoServers /\ rChan = NoServers
    /\ rBanner = <<>> /\ rOutputs = <<>> /\ rFoundError = FALSE
    /\ rFound = FALSE /\ rText = <<>> /\ rError = <<>>
    /\ report = <<>> /\ rExit = "none"
    /\ rContacted = <<>> /\ rSent = <<>>

\* MMLClient.disconnect, and chan.close(); client.close() of main.py
Closed(state) == IF state = "open" THEN "closed" ELSE state

\* the check of server rIdx returns (found, text)
CheckReturns(found, text) ==
    /\ rPc' = "checked"
    /\ rFound' = found
    /\ rText' = text

\* an exception leaves search_msisdn or main: the interpreter ends with code 1
RunCrashes ==
    /\ rPc' = "crashed"
    /\ rExit' = "1"

\* a handled or propagating failure of the check of server rIdx
CheckFails(result) ==
    IF result.raised
    THEN RunCrashes /\ UNCHANGED <<rFound, rText>>
    ELSE CheckReturns(result.found, result.text)

\* an exception raised inside execute_commands: the finally of check_msisdn
\* disconnects and the exception goes on; main.py has no handler at all
OnSessionError(impl, err) ==
    [raised |-> TRUE, found |-> FALSE, text |-> err, closes |-> impl = "search"]

\* an exception raised by the banner drain: inside the try of connect(),
\* which returns False; main.py has no handler
OnBannerError(impl, err) ==
    IF impl = "search"
    THEN [raised |-> FALSE, found |-> FALSE, text |-> ConnectionFailedText]
    ELSE [raised |-> TRUE, found |-> FALSE, text |-> err]

\* ReportGenerator(msisdn), and the header main.py writes
RunStart ==
    /\ rPc = "start"
    /\ report' = HeaderLines
    /\ rIdx' = 1
    /\ rPc' = "loop"
    /\ UNCHANGED <<rImpl, rN, rCmd, rConn, rChan, rBanner, rOutputs, rFoundError,
                   rFound, rText, rError, rExit, rContacted, rSent, exceptR>>

\* for server in SERVERS: ... client.connect(...)
RunConnect(outcome) ==
    /\ rPc = "loop"
    /\ rIdx <= rN
    /\ rContacted' = Append(rContacted, rIdx)
    /\ rCmd' = 0 /\ rOutputs' = <<>> /\ rFoundError' = FALSE /\ rBanner' = <<>>
    /\ IF outcome = <<>>
       THEN /\ rConn' = [rConn EXCEPT ![rIdx] = "open"]
            /\ rPc' = "shell"
            /\ rError' = <<>>
            /\ UNCHANGED <<rFound, rText, rExit>>
       ELSE /\ rError' = outcome
            /\ CheckFails(OnConnectError(rImpl, outcome))
            /\ IF OnConnectError(rImpl, outcome).raised THEN TRUE ELSE UNCHANGED rExit
            /\ UNCHANGED rConn
    /\ UNCHANGED <<rImpl, rN, rIdx, rChan, report, rSent, exceptR>>

\* client.invoke_shell()
RunInvokeShell(ok) ==
    /\ rPc = "shell"
    /\ IF ok
       THEN /\ rChan' = [rChan EXCEPT ![rIdx] = "open"]
            /\ rPc' = "banner"
            /\ UNCHANGED <<rFound, rText, rError, rExit>>
       ELSE /\ rError' = ErrChannel
            /\ CheckFails(OnShellError(rImpl, ErrChannel))
            /\ IF OnShellError(rImpl, ErrChannel).raised THEN TRUE ELSE UNCHANGED rExit
            /\ UNCHANGED rChan
    /\ UNCHANGED <<rImpl, rN, rIdx, rCmd, rConn, rBanner, rOutputs, rFoundError,
                   report, rContacted, rSent, exceptR>>

\* the banner drain returns text
RunBanner(text) ==
    /\ rPc = "banner"
    /\ rBanner' = text
    /\ rCmd' = 1
    /\ rPc' = "send"
    /\ UNCHANGED <<rImpl, rN, rIdx, rConn, rChan, rOutputs, rFoundError, rFound,
                   rText, rError, report, rExit, rContacted, rSent, exceptR>>

\* the banner drain raises
RunBannerRaises ==
    /\ rPc = "banner"
    /\ rError' = ErrSocketClosed
    /\ CheckFails(OnBannerError(rImpl, ErrSocketClosed))
    /\ IF OnBannerError(rImpl, ErrSocketClosed).raised THEN TRUE ELSE UNCHANGED rExit
    /\ UNCHANGED <<rImpl, rN, rIdx, rCmd, rConn, rChan, rBanner, rOutputs,
                   rFoundError, report, rContacted, rSent, exceptR>>

\* channel.send(command + "\r\n") returns
RunSend ==
    /\ rPc = "send"
    /\ rSent' = Append(rSent, <<rIdx, Commands(rImpl)[rCmd]>>)
    /\ rPc' = "drain"
    /\ UNCHANGED <<rImpl, rN, rIdx, rCmd, rConn, rChan, rBanner, rOutputs,
                   rFoundError, rFound, rText, rError, report, rExit, rContacted,
                   exceptR>>

\* channel.send, or the drain after it, raises
RunSessionRaises ==
    /\ rPc \in {"send", "drain"}
    /\ rError' = ErrSocketClosed
    /\ CheckFails(OnSessionError(rImpl, ErrSocketClosed))
    /\ IF OnSessionError(rImpl, ErrSocketClosed).raised THEN TRUE ELSE UNCHANGED rExit
    /\ IF OnSessionError(rImpl, ErrSocketClosed).closes
       THEN /\ rChan' = [rChan EXCEPT ![rIdx] = Closed(@)]
            /\ rConn' = [rConn EXCEPT ![rIdx] = Closed(@)]
       ELSE UNCHANGED <<rChan, rConn>>
    /\ UNCHANGED <<rImpl, rN, rIdx, rCmd, rBanner, rOutputs, rFoundError, report,
                   rContacted, rSent, exceptR>>

\* a variant that keeps the banner at the head of the transcript
Transcript_with_banner(impl, banner, outputs) ==
    banner \o format_outputs(outputs)

\* output_text of the session: the formatted outputs of the commands; the
\* banner is logged and is no part of it
Transcript(impl, banner, outputs) ==
    format_outputs(outputs)

\* the drain of command rCmd returns output: the marker check, then either
\* the next command or the end of the session with its verdict
RunDrain(output) ==
    LET outputs == Append(rOutputs, [command |-> Commands(rImpl)[rCmd], output |-> output])
        stop == error_detected(output, outputs)
        last == rCmd = Len(Commands(rImpl))
        text == Transcript(rImpl, rBanner, outputs)
    IN  /\ rPc = "drain"
        /\ rOutputs' = outputs
        /\ rFoundError' = stop
        /\ IF stop \/ last
           THEN /\ rChan' = [rChan EXCEPT ![rIdx] = Closed(@)]
                /\ rConn' = [rConn EXCEPT ![rIdx] = Closed(@)]
                /\ CheckReturns(Classify(rImpl, text), text)
                /\ UNCHANGED rCmd
           ELSE /\ rCmd' = rCmd + 1
                /\ rPc' = "send"
                /\ UNCHANGED <<rChan, rConn, rFound, rText>>
        /\ UNCHANGED <<rImpl, rN, rIdx, rBanner, rError, report, rExit, rContacted,
                       rSent, exceptR>>

\* a variant that goes through all the servers
stops_search_never(found) == FALSE

\* if found: ... return
stops_search(found) == found

\* report.add_result(...); if found: report.finalize(True); return True
RunRecord ==
    /\ rPc = "checked"
    /\ IF stops_search(rFound)
       THEN /\ report' = finalize(add_result(report, rImpl, rIdx, rFound), rImpl, TRUE)
            /\ rExit' = ExitCode(rImpl, TRUE)
            /\ rPc' = "exited"
            /\ UNCHANGED rIdx
       ELSE /\ report' = add_result(report, rImpl, rIdx, rFound)
            /\ rIdx' = rIdx + 1
            /\ rPc' = "loop"
            /\ UNCHANGED rExit
    /\ UNCHANGED <<rImpl, rN, rCmd, rConn, rChan, rBanner, rOutputs, rFoundError,
                   rFound, rText, rError, rContacted, rSent, exceptR>>

\* the loop is exhausted: report.finalize(False); return False
RunFinish ==
    /\ rPc = "loop"
    /\ rIdx > rN
    /\ report' = finalize(report, rImpl, FALSE)
    /\ rExit' = ExitCode(rImpl, FALSE)
    /\ rPc' = "exited"
    /\ UNCHANGED <<rImpl, rN, rIdx, rCmd, rConn, rChan, rBanner, rOutputs,
                   rFoundError, rFound, rText, rError, rContacted, rSent, exceptR>>

RunNext ==
    \/ RunStart
    \/ \E outcome \in {<<>>} \cup ConnectErrors : RunConnect(outcome)
    \/ \E ok \in BOOLEAN : RunInvokeShell(ok)
    \/ \E text \in BannerTexts : RunBanner(text)
    \/ RunBannerRaises
    \/ RunSend
    \/ RunSessionRaises
    \/ \E output \in Responses : RunDrain(output)
    \/ RunRecord
    \/ RunFinish

----------------------------------------------------------------------------
(* connect_device of PhoneCallAutomation: adb connect <ip_port>, and how   *)
(* its result is read.                                                      *)

LowerChar(c) ==
    IF \E k \in 1..Len(Uppers) : Uppers[k] = c
    THEN Lowers[CHOOSE k \in 1..Len(Uppers) : Uppers[k] = c]
    ELSE c

\* str.lower()
Lower(text) == [i \in 1..Len(text) |-> LowerChar(text[i])]

Whitespace == {" ", "\n", "\t", "\r"}

RECURSIVE LStrip(_)
LStrip(text) ==
    IF text # <<>> /\ text[1] \in Whitespace THEN LStrip(Tail(text)) ELSE text

RECURSIVE RStrip(_)
RStrip(text) ==
    IF text # <<>> /\ text[Len(text)] \in Whitespace
    THEN RStrip(SubSeq(text, 1, Len(text) - 1))
    ELSE text

\* str.strip()
Strip(text) == RStrip(LStrip(text))

CONNECTED ==
    <<"c", "o", "n", "n", "e", "c", "t", "e", "d">>

UNABLE_TO_CONNECT ==
    <<"u", "n", "a", "b", "l", "e", " ", "t", "o", " ", "c", "o",
      "n", "n", "e", "c", "t">>

\* what adb connect prints, in pieces
FragConnectedTo ==
    <<"c", "o", "n", "n", "e", "c", "t", "e", "d", " ", "t", "o",
      " ">>

FragConnectedCap ==
    <<"C", "o", "n", "n", "e", "c", "t", "e", "d", " ", "t", "o",
      " ">>

FragAlready ==
    <<"a", "l", "r", "e", "a", "d", "y", " ">>

FragUnableTo ==
    <<"u", "n", "a", "b", "l", "e", " ", "t", "o", " ", "c", "o",
      "n", "n", "e", "c", "t", " ", "t", "o", " ">>

FragFailedTo ==
    <<"f", "a", "i", "l", "e", "d", " ", "t", "o", " ", "c", "o",
      "n", "n", "e", "c", "t", " ", "t", "o", " ">>

FragAddress ==
    <<"1", "7", "2", ".", "2", "9", ".", "4", "2", ".", "4", "4",
      ":", "7", "4", "3", "7", "\n">>

AdbFragments ==
    {FragConnectedTo, FragConnectedCap, FragAlready, FragUnableTo, FragFailedTo,
     FragAddress}

AdbOutputs == {Join(parts) : parts \in SeqsUpTo(AdbFragments, MaxFrags)}

\* self.phones[...]["ip_port"]
PhoneIpPorts == {"172.29.42.44:7437", "172.29.42.44:7445"}

\* what subprocess.run can raise
AdbExceptions == {"TimeoutExpired", "FileNotFoundError", "OSError"}

\* phone_automation/phone_call_automation.py: the markers in the output decide
connected_by_output(returncode, stdout) ==
    LET output == Strip(stdout)
    IN  Contains(Lower(output), CONNECTED) /\ ~Contains(Lower(output), UNABLE_TO_CONNECT)

\* phone_call_automation.py: the exit code decides
connected_by_returncode(returncode, stdout) ==
    returncode = 0

\* the if of connect_device of each implementation
connect_succeeded(impl, returncode, stdout) ==
    IF impl = "package" THEN connected_by_output(returncode, stdout)
    ELSE connected_by_returncode(returncode, stdout)

PhoneIdle ==
    /\ pPc = "idle" /\ pImpl = "none" /\ pIpPort = "none" /\ pCode = -1
    /\ pStdout = <<>> /\ pRaised = "none" /\ pResult = FALSE

PhoneInit ==
    /\ pPc = "ready"
    /\ pImpl \in {"package", "legacy"}
    /\ pIpPort \in PhoneIpPorts
    /\ pCode = -1 /\ pStdout = <<>> /\ pRaised = "none" /\ pResult = FALSE

\* subprocess.run returns, connect_device reads the result
PhoneConnect(returncode, stdout) ==
    /\ pPc = "ready"
    /\ pCode' = returncode
    /\ pStdout' = stdout
    /\ pResult' = connect_succeeded(pImpl, returncode, stdout)
    /\ pPc' = "done"
    /\ UNCHANGED <<pImpl, pIpPort, pRaised, exceptP>>

\* subprocess.run raises: each except clause returns False
PhoneConnectRaises(exc) ==
    /\ pPc = "ready"
    /\ pRaised' = exc
    /\ pResult' = FALSE
    /\ pPc' = "done"
    /\ UNCHANGED <<pImpl, pIpPort, pCode, pStdout, exceptP>>

PhoneNext ==
    \/ \E returncode \in {0, 1}, stdout \in AdbOutputs : PhoneConnect(returncode, stdout)
    \/ \E exc \in AdbExceptions : PhoneConnectRaises(exc)

----------------------------------------------------------------------------
(* MMLClient as an object: its methods called in any order by a caller.    *)

\* if not self.channel: raise RuntimeError
not_connected(channel) == channel = "none"

\* what connect() can meet: success, or a failure of client.connect, of
\* invoke_shell, or of the banner drain
ConnectOutcomes == {"ok", "connect", "shell", "banner"}

ClientIdle ==
    /\ mClient = "idle" /\ mChannel = "idle" /\ mWith = FALSE /\ mCalls = 0
    /\ mLast = "none" /\ mRaised = "none" /\ mSentNow = FALSE /\ mConnected = FALSE

\* MMLClient.__init__
ClientInit ==
    /\ mClient = "none" /\ mChannel = "none" /\ mWith = FALSE /\ mCalls = 0
    /\ mLast = "none" /\ mRaised = "none" /\ mSentNow = FALSE /\ mConnected = FALSE

\* connect(): self.client is replaced at once, self.channel when invoke_shell
\* returned; every exception ends in return False
ConnectEffect(outcome) ==
    /\ mClient' = IF outcome = "connect" THEN "new" ELSE "open"
    /\ mChannel' = IF outcome \in {"ok", "banner"} THEN "open" ELSE mChannel
    /\ mConnected' = IF outcome = "ok" THEN TRUE ELSE mConnected
    /\ mRaised' = "none"
    /\ mSentNow' = FALSE

\* disconnect(): closes what is there and leaves both attributes set
DisconnectEffect ==
    /\ mChannel' = Closed(mChannel)
    /\ mClient' = IF mClient = "none" THEN "none" ELSE "closed"
    /\ mConnected' = FALSE
    /\ mRaised' = "none"
    /\ mSentNow' = FALSE

ClientConnect(outcome) ==
    /\ mCalls < MaxCalls
    /\ mCalls' = mCalls + 1
    /\ mLast' = "connect"
    /\ ConnectEffect(outcome)
    /\ UNCHANGED <<mWith, exceptM>>

\* __enter__: connect(), its result dropped
ClientEnter(outcome) ==
    /\ mCalls < MaxCalls
    /\ ~mWith
    /\ mCalls' = mCalls + 1
    /\ mLast' = "enter"
    /\ mWith' = TRUE
    /\ ConnectEffect(outcome)
    /\ UNCHANGED exceptM

\* execute_command: the guard, then channel.send; a closed channel refuses
\* the send with socket.error, an open one takes the bytes or fails
ClientExecute(sendOk) ==
    /\ mCalls < MaxCalls
    /\ mCalls' = mCalls + 1
    /\ mLast' = "execute"
    /\ IF not_connected(mChannel)
       THEN mRaised' = "RuntimeError" /\ mSentNow' = FALSE
       ELSE IF mChannel = "open" /\ sendOk
            THEN mRaised' = "none" /\ mSentNow' = TRUE
            ELSE mRaised' = "socket.error" /\ mSentNow' = FALSE
    /\ UNCHANGED <<mClient, mChannel, mWith, mConnected, exceptM>>

ClientDisconnect ==
    /\ mCalls < MaxCalls
    /\ mCalls' = mCalls + 1
    /\ mLast' = "disconnect"
    /\ DisconnectEffect
    /\ UNCHANGED <<mWith, exceptM>>

\* __exit__: disconnect()
ClientExit ==
    /\ mCalls < MaxCalls
    /\ mWith
    /\ mCalls' = mCalls + 1
    /\ mLast' = "exit"
    /\ mWith' = FALSE
    /\ DisconnectEffect
    /\ UNCHANGED exceptM

ClientNext ==
    \/ \E outcome \in ConnectOutcomes : ClientConnect(outcome)
    \/ \E outcome \in ConnectOutcomes : ClientEnter(outcome)
    \/ \E sendOk \in BOOLEAN : ClientExecute(sendOk)
    \/ ClientDisconnect
    \/ ClientExit

----------------------------------------------------------------------------
(* The device bridge: the operations of PhoneCallAutomation, one step per   *)
(* subprocess.run.                                                          *)

RECURSIVE SplitLines(_)
\* str.split('\n')
SplitLines(text) ==
    IF \E i \in 1..Len(text) : text[i] = "\n"
    THEN LET i == CHOOSE k \in 1..Len(text) :
                      text[k] = "\n" /\ \A j \in 1..(k - 1) : text[j] # "\n"
         IN  <<SubSeq(text, 1, i - 1)>> \o SplitLines(SubSeq(text, i + 1, Len(text)))
    ELSE <<text>>

M_CALL_STATE ==
    <<"m", "C", "a", "l", "l", "S", "t", "a", "t", "e", "=">>

EQ0 ==
    <<"=", "0">>

EQ1 ==
    <<"=", "1">>

EQ2 ==
    <<"=", "2">>

IDLE_WORD ==
    <<"I", "D", "L", "E">>

RINGING_WORD ==
    <<"R", "I", "N", "G", "I", "N", "G">>

OFFHOOK_WORD ==
    <<"O", "F", "F", "H", "O", "O", "K">>

\* the test of one line that holds mCallState=: "" when no branch matches
LineState(line) ==
    IF Contains(line, EQ0) \/ Contains(Upper(line), IDLE_WORD) THEN "IDLE"
    ELSE IF Contains(line, EQ1) \/ Contains(Upper(line), RINGING_WORD) THEN "RINGING"
    ELSE IF Contains(line, EQ2) \/ Contains(Upper(line), OFFHOOK_WORD) THEN "OFFHOOK"
    ELSE ""

RECURSIVE ScanLines(_)
\* for line in output.split('\n'): the first line that decides, else IDLE
ScanLines(lines) ==
    IF lines = <<>> THEN "IDLE"
    ELSE IF Contains(lines[1], M_CALL_STATE) /\ LineState(lines[1]) # ""
         THEN LineState(lines[1])
         ELSE ScanLines(Tail(lines))

\* what a subprocess.run ended with
Exit(code, stdout) == [kind |-> "exit", code |-> code, stdout |-> stdout, exc |-> "none"]

Raise(exc) == [kind |-> "raise", code |-> -1, stdout |-> <<>>, exc |-> exc]

\* subprocess.TimeoutExpired, and FileNotFoundError when adb is missing
ToolErrors == {Raise("TimeoutExpired"), Raise("FileNotFoundError")}

\* get_call_state, from what its subprocess ended with
get_call_state(outcome) ==
    IF outcome.kind = "raise" THEN "UNKNOWN"
    ELSE IF outcome.code = 0 THEN ScanLines(SplitLines(Strip(outcome.stdout)))
    ELSE "UNKNOWN"

\* the lines of a dump: other fields, and the call state with what may follow
\* it on its line
LineServiceState ==
    <<"m", "S", "e", "r", "v", "i", "c", "e", "S", "t", "a", "t",
      "e", "=", "0">>

LineDataActivity ==
    <<" ", " ", "m", "D", "a", "t", "a", "A", "c", "t", "i", "v",
      "i", "t", "y", "=", "1">>

FieldIndent ==
    <<" ", " ">>

TailDataState ==
    <<" ", "m", "D", "a", "t", "a", "S", "t", "a", "t", "e", "=",
      "0">>

TailRinging ==
    <<" ", "r", "i", "n", "g", "i", "n", "g">>

FieldValues == {<<>>, <<"0">>, <<"1">>, <<"2">>, <<"7">>}

FieldTails == {<<>>, TailDataState, TailRinging}

FieldLines ==
    {FieldIndent \o M_CALL_STATE \o v \o t : v \in FieldValues, t \in FieldTails}

DumpLines == FieldLines \cup {LineServiceState, LineDataActivity}

RECURSIVE JoinLines(_)
\* the lines, each ended by a newline
JoinLines(lines) ==
    IF lines = <<>> THEN <<>>
    ELSE lines[1] \o <<"\n">> \o JoinLines(Tail(lines))

Dumps == {JoinLines(lines) : lines \in SeqsUpTo(DumpLines, MaxLines)}

\* one dump for each state answer_call can meet
DumpOf(value) == JoinLines(<<LineServiceState, FieldIndent \o M_CALL_STATE \o value>>)

AnswerDumps == {DumpOf(<<"0">>), DumpOf(<<"1">>), DumpOf(<<"2">>)}

----------------------------------------------------------------------------
(* The operations.  A phone is its place in the phone table; 0 stands for   *)
(* a phone id that is not in the table.                                     *)

\* the phone table of phone_call_automation.py has two entries
LegacyPhoneCount == 2

PhoneIds(n) == 1..n

\* what adb connect prints
ConnectOutputs == {FragConnectedTo \o FragAddress, FragUnableTo \o FragAddress, <<>>}

ConnectRuns == {Exit(c, o) : c \in {0, 1}, o \in ConnectOutputs} \cup ToolErrors

\* a key event or an am start: only the exit code is read
KeyRuns == {Exit(0, <<>>), Exit(1, <<>>)} \cup ToolErrors

StateRuns(dumps) == {Exit(0, d) : d \in dumps} \cup {Exit(1, <<>>)} \cup ToolErrors

Tag(outcome) ==
    IF outcome.kind = "raise" THEN outcome.exc
    ELSE IF outcome.code = 0 THEN "0" ELSE "1"

Bool(b) == IF b THEN "True" ELSE "False"

\* every subprocess.run sits in a try whose except clauses return: no
\* exception of the subprocess escapes
tool_error_escapes(outcome) == FALSE

\* connect_device
connect_device(impl, outcome) ==
    /\ outcome.kind = "exit"
    /\ connect_succeeded(impl, outcome.code, outcome.stdout)

\* returncode == 0 of make_call, end_call and answer_call
exit_zero(outcome) == outcome.kind = "exit" /\ outcome.code = 0

\* a variant of answer_call that presses the key unless the phone is idle
may_answer_unless_idle(state) == state # "IDLE"

\* if call_state != 'RINGING': return False
may_answer(state) == state = "RINGING"

\* a variant that goes on to the other phones whatever the first key event did
ends_others_always(impl, ok, end_all) == impl = "package" /\ end_all

\* end_call goes on to the other phones: the package, end_all, exit code 0
ends_others(impl, ok, end_all) == impl = "package" /\ ok /\ end_all

\* if success and duration
auto_end(success, duration) == success /\ duration # 0

\* the phones of the table other than device, in table order
Others(n, device) == {i \in PhoneIds(n) : i # device}

NextOther(n, device, after) ==
    IF \E i \in Others(n, device) : i > after
    THEN CHOOSE i \in Others(n, device) : i > after /\ \A j \in Others(n, device) : j > after => i <= j
    ELSE 0

Durations == {0, 5}

BridgeIdle ==
    /\ bPc = "idle" /\ bImpl = "none" /\ bN = 0 /\ bOp = "none" /\ bDevice = 0
    /\ bTo = 0 /\ bEndAll = FALSE /\ bDuration = 0 /\ bOther = 0 /\ bState = "none"
    /\ bStdout = <<>> /\ bConnOut = <<>> /\ bSuccess = FALSE /\ bResult = "none" /\ bRuns = <<>>

BridgeInit ==
    /\ bPc = "ready"
    /\ bImpl \in {"package", "legacy"}
    /\ bN \in IF bImpl = "package" THEN 2..MaxPhones ELSE {LegacyPhoneCount}
    /\ bOp = "none" /\ bDevice = 0
    /\ bTo = 0 /\ bEndAll = FALSE /\ bDuration = 0 /\ bOther = 0 /\ bState = "none"
    /\ bStdout = <<>> /\ bConnOut = <<>> /\ bSuccess = FALSE /\ bResult = "none" /\ bRuns = <<>>

Ran(command, phone, outcome) == Append(bRuns, <<command, phone, Tag(outcome)>>)

\* the operation returns value, or the exception of its subprocess escapes
BridgeReturns(value, outcome) ==
    /\ bPc' = "done"
    /\ bResult' = IF tool_error_escapes(outcome) THEN "raised" ELSE value

\* connect_device, disconnect_device, make_call or get_call_state is called
BridgeCallSimple(op, device) ==
    /\ bPc = "ready"
    /\ op \in {"get_call_state"} => bImpl = "package"
    /\ bOp' = op /\ bDevice' = device
    /\ bPc' = "run"
    /\ UNCHANGED <<bImpl, bN, bTo, bEndAll, bDuration, bOther, bState, bStdout, bConnOut, bSuccess,
                   bResult, bRuns, exceptB>>

\* end_call(device, end_all) is called
BridgeCallEnd(device, end_all) ==
    /\ bPc = "ready"
    /\ bImpl = "legacy" => ~end_all
    /\ bOp' = "end_call" /\ bDevice' = device /\ bEndAll' = end_all
    /\ bPc' = "ec_key"
    /\ UNCHANGED <<bImpl, bN, bTo, bDuration, bOther, bState, bStdout, bConnOut, bSuccess, bResult,
                   bRuns, exceptB>>

\* answer_call(device) is called
BridgeCallAnswer(device) ==
    /\ bPc = "ready"
    /\ bImpl = "package"
    /\ bOp' = "answer_call" /\ bDevice' = device
    /\ bPc' = "an_state"
    /\ UNCHANGED <<bImpl, bN, bTo, bEndAll, bDuration, bOther, bState, bStdout, bConnOut, bSuccess,
                   bResult, bRuns, exceptB>>

\* make_phone_call(from_phone, to_phone, duration) is called: ids that are
\* not in the table end it at once
BridgeCallPhoneCall(from, to, duration) ==
    /\ bPc = "ready"
    /\ bOp' = "make_phone_call" /\ bDevice' = from /\ bTo' = to /\ bDuration' = duration
    /\ IF from = 0 \/ to = 0
       THEN bPc' = "done" /\ bResult' = "False"
       ELSE bPc' = "mp_connect" /\ UNCHANGED bResult
    /\ UNCHANGED <<bImpl, bN, bEndAll, bOther, bState, bStdout, bConnOut, bSuccess, bRuns, exceptB>>

\* the one subprocess of connect_device, disconnect_device or make_call
BridgeRun(outcome) ==
    /\ bPc = "run"
    /\ bOp \in {"connect_device", "disconnect_device", "make_call"}
    /\ bOp = "connect_device" => outcome \in ConnectRuns
    /\ bOp # "connect_device" => outcome \in KeyRuns
    /\ bRuns' = Ran(bOp, bDevice, outcome)
    /\ bConnOut' = IF bOp = "connect_device" THEN outcome.stdout ELSE bConnOut
    /\ BridgeReturns(IF bOp = "connect_device" THEN Bool(connect_device(bImpl, outcome))
                     ELSE IF bOp = "disconnect_device" THEN "None"
                     ELSE Bool(exit_zero(outcome)), outcome)
    /\ UNCHANGED <<bImpl, bN, bOp, bDevice, bTo, bEndAll, bDuration, bOther, bState, bStdout,
                   bSuccess, exceptB>>

\* the subprocess of get_call_state
BridgeQueryState(outcome) ==
    /\ bPc = "run"
    /\ bOp = "get_call_state"
    /\ bRuns' = Ran("dumpsys", bDevice, outcome)
    /\ bState' = get_call_state(outcome)
    /\ bStdout' = outcome.stdout
    /\ BridgeReturns(get_call_state(outcome), outcome)
    /\ UNCHANGED <<bImpl, bN, bOp, bDevice, bTo, bEndAll, bDuration, bOther,
                   bConnOut, bSuccess, exceptB>>

\* the value end_call's caller gets: make_phone_call returns success
AfterEndCall(value) ==
    IF bOp = "make_phone_call" THEN Bool(bSuccess) ELSE value

\* end_call: the key event on the named device
BridgeEndKey(outcome) ==
    /\ bPc = "ec_key"
    /\ bRuns' = Ran("keyevent 6", bDevice, outcome)
    /\ IF ends_others(bImpl, exit_zero(outcome), bEndAll) /\ NextOther(bN, bDevice, 0) # 0
       THEN /\ bPc' = "ec_others"
            /\ bOther' = NextOther(bN, bDevice, 0)
            /\ UNCHANGED bResult
       ELSE /\ BridgeReturns(AfterEndCall(Bool(exit_zero(outcome))), outcome)
            /\ UNCHANGED bOther
    /\ UNCHANGED <<bImpl, bN, bOp, bDevice, bTo, bEndAll, bDuration, bState, bStdout,
                   bConnOut, bSuccess, exceptB>>

\* end_call: the key event on another phone, in its own try
BridgeEndOther(outcome) ==
    /\ bPc = "ec_others"
    /\ bRuns' = Ran("keyevent 6", bOther, outcome)
    /\ IF NextOther(bN, bDevice, bOther) # 0
       THEN /\ bOther' = NextOther(bN, bDevice, bOther)
            /\ UNCHANGED <<bPc, bResult>>
       ELSE /\ BridgeReturns(AfterEndCall("True"), outcome)
            /\ UNCHANGED bOther
    /\ UNCHANGED <<bImpl, bN, bOp, bDevice, bTo, bEndAll, bDuration, bState, bStdout,
                   bConnOut, bSuccess, exceptB>>

\* answer_call: the state query before the key event
BridgeAnswerState(outcome) ==
    /\ bPc = "an_state"
    /\ bRuns' = Ran("dumpsys", bDevice, outcome)
    /\ bState' = get_call_state(outcome)
    /\ bStdout' = outcome.stdout
    /\ IF may_answer(get_call_state(outcome))
       THEN bPc' = "an_key" /\ UNCHANGED bResult
       ELSE BridgeReturns("False", outcome)
    /\ UNCHANGED <<bImpl, bN, bOp, bDevice, bTo, bEndAll, bDuration, bOther,
                   bConnOut, bSuccess, exceptB>>

\* answer_call: the key event
BridgeAnswerKey(outcome) ==
    /\ bPc = "an_key"
    /\ bRuns' = Ran("keyevent 5", bDevice, outcome)
    /\ IF exit_zero(outcome)
       THEN bPc' = "an_verify" /\ UNCHANGED bResult
       ELSE BridgeReturns("False", outcome)
    /\ UNCHANGED <<bImpl, bN, bOp, bDevice, bTo, bEndAll, bDuration, bOther, bState, bStdout,
                   bConnOut, bSuccess, exceptB>>

\* answer_call: the state query after the key event, logged only
BridgeAnswerVerify(outcome) ==
    /\ bPc = "an_verify"
    /\ bRuns' = Ran("dumpsys", bDevice, outcome)
    /\ bStdout' = outcome.stdout
    /\ BridgeReturns("True", outcome)
    /\ UNCHANGED <<bImpl, bN, bOp, bDevice, bTo, bEndAll, bDuration, bOther, bState,
                   bConnOut, bSuccess, exceptB>>

\* make_phone_call: connect_device(caller)
BridgePhoneCallConnect(outcome) ==
    /\ bPc = "mp_connect"
    /\ bRuns' = Ran("connect_device", bDevice, outcome)
    /\ bConnOut' = outcome.stdout
    /\ IF connect_device(bImpl, outcome)
       THEN bPc' = "mp_call" /\ UNCHANGED bResult
       ELSE BridgeReturns("False", outcome)
    /\ UNCHANGED <<bImpl, bN, bOp, bDevice, bTo, bEndAll, bDuration, bOther, bState, bStdout,
                   bSuccess, exceptB>>

\* make_phone_call: make_call(caller, recipient), then the end_call after the
\* duration, with end_all at its default
BridgePhoneCallPlace(outcome) ==
    /\ bPc = "mp_call"
    /\ bRuns' = Ran("make_call", bDevice, outcome)
    /\ bSuccess' = exit_zero(outcome)
    /\ IF auto_end(exit_zero(outcome), bDuration)
       THEN bPc' = "ec_key" /\ bEndAll' = TRUE /\ UNCHANGED bResult
       ELSE BridgeReturns(Bool(exit_zero(outcome)), outcome) /\ UNCHANGED bEndAll
    /\ UNCHANGED <<bImpl, bN, bOp, bDevice, bTo, bDuration, bOther, bState, bStdout,
                   bConnOut, exceptB>>

BridgeNext ==
    \/ \E op \in {"connect_device", "disconnect_device", "make_call", "get_call_state"},
          device \in PhoneIds(bN) : BridgeCallSimple(op, device)
    \/ \E device \in PhoneIds(bN), end_all \in BOOLEAN : BridgeCallEnd(device, end_all)
    \/ \E device \in PhoneIds(bN) : BridgeCallAnswer(device)
    \/ \E from \in 0..bN, to \in 0..bN, duration \in Durations :
          BridgeCallPhoneCall(from, to, duration)
    \/ \E outcome \in ConnectRuns \cup KeyRuns : BridgeRun(outcome)
    \/ \E outcome \in StateRuns(Dumps) : BridgeQueryState(outcome)
    \/ \E outcome \in KeyRuns : BridgeEndKey(outcome)
    \/ \E outcome \in KeyRuns : BridgeEndOther(outcome)
    \/ \E outcome \in StateRuns(AnswerDumps) : BridgeAnswerState(outcome)
    \/ \E outcome \in KeyRuns : BridgeAnswerKey(outcome)
    \/ \E outcome \in StateRuns(AnswerDumps) : BridgeAnswerVerify(outcome)
    \/ \E outcome \in ConnectRuns : BridgePhoneCallConnect(outcome)
    \/ \E outcome \in KeyRuns : BridgePhoneCallPlace(outcome)

----------------------------------------------------------------------------
(* configs/config.py: SERVERS.yaml and PHONES.yaml are loaded when the     *)
(* module is imported, before any tool runs.                                *)

\* a file that is not there, one yaml cannot parse, one that holds nothing,
\* and documents: the key may be absent, its value null, a mapping or a list
\* of n entries
ConfigFiles ==
    {[file |-> f, key |-> FALSE, val |-> "null", n |-> 0] :
        f \in {"missing", "invalid", "empty", "doc"}}
    \cup {[file |-> "doc", key |-> TRUE, val |-> "null", n |-> 0]}
    \cup {[file |-> "doc", key |-> TRUE, val |-> v, n |-> n] :
            v \in {"map", "list"}, n \in 0..MaxServers}

\* a variant without the test for emptiness
is_empty_unchecked(file) == FALSE

\* if not servers / if not phones: the value of data.get(key, {}) is falsy
is_empty(file) == ~file.key \/ file.val = "null" \/ file.n = 0

\* load_servers and load_phones: what the load prints and whether it exits;
\* iterate says that the entries are walked with .items()
load_config(file, iterate) ==
    IF file.file = "missing"
    THEN [exit |-> "1", printed |-> <<"ERROR: not found", "Please create">>, n |-> 0]
    ELSE IF \/ file.file \in {"invalid", "empty"}
            \/ is_empty(file)
            \/ iterate /\ file.val # "map"
         THEN [exit |-> "1", printed |-> <<"ERROR loading">>, n |-> 0]
         ELSE [exit |-> "none", printed |-> <<>>, n |-> file.n]

ConfigIdle ==
    /\ gPc = "idle"
    /\ gServersFile = [file |-> "none", key |-> FALSE, val |-> "null", n |-> 0]
    /\ gPhonesFile = [file |-> "none", key |-> FALSE, val |-> "null", n |-> 0]
    /\ gServers = -1 /\ gPhones = -1 /\ gPrinted = <<>> /\ gExit = "none"

ConfigInit ==
    /\ gPc = "servers"
    /\ gServersFile \in ConfigFiles
    /\ gPhonesFile \in ConfigFiles
    /\ gServers = -1 /\ gPhones = -1 /\ gPrinted = <<>> /\ gExit = "none"

\* SERVERS = load_servers()
LoadServers ==
    LET r == load_config(gServersFile, TRUE)
    IN  /\ gPc = "servers"
        /\ gPrinted' = gPrinted \o r.printed
        /\ gExit' = r.exit
        /\ IF r.exit = "none"
           THEN gPc' = "phones" /\ gServers' = r.n
           ELSE gPc' = "exited" /\ UNCHANGED gServers
        /\ UNCHANGED <<gServersFile, gPhonesFile, gPhones, exceptG>>

\* PHONES = load_phones()
LoadPhones ==
    LET r == load_config(gPhonesFile, FALSE)
    IN  /\ gPc = "phones"
        /\ gPrinted' = gPrinted \o r.printed
        /\ gExit' = r.exit
        /\ IF r.exit = "none"
           THEN gPc' = "loaded" /\ gPhones' = r.n
           ELSE gPc' = "exited" /\ UNCHANGED gPhones
        /\ UNCHANGED <<gServersFile, gPhonesFile, gServers, exceptG>>

\* the import is over: a tool starts its first server or phone operation
StartOperation ==
    /\ gPc = "loaded"
    /\ gPc' = "started"
    /\ UNCHANGED <<gServersFile, gPhonesFile, gServers, gPhones, gPrinted, gExit,
                   exceptG>>

ConfigNext ==
    \/ LoadServers
    \/ LoadPhones
    \/ StartOperation

----------------------------------------------------------------------------
(* Specifications: one per component, the other components at rest *)

InitNormalize == NormInit /\ ClassIdle /\ DrainIdle /\ RunIdle /\ PhoneIdle /\ ClientIdle
    /\ BridgeIdle /\ ConfigIdle

SpecNormalize == InitNormalize /\ [][NormNext]_vars

InitClassify == ClassInit /\ NormIdle /\ DrainIdle /\ RunIdle /\ PhoneIdle /\ ClientIdle
    /\ BridgeIdle /\ ConfigIdle

SpecClassify == InitClassify /\ [][ClassNext]_vars

InitDrain == DrainInit /\ NormIdle /\ ClassIdle /\ RunIdle /\ PhoneIdle /\ ClientIdle
    /\ BridgeIdle /\ ConfigIdle

SpecDrain == InitDrain /\ [][DrainNext]_vars

\* the drain runs in the only thread there is: it keeps taking steps
FairSpecDrain == SpecDrain /\ WF_vars(DrainNext)

InitRun == RunInit /\ NormIdle /\ ClassIdle /\ DrainIdle /\ PhoneIdle /\ ClientIdle
    /\ BridgeIdle /\ ConfigIdle

SpecRun == InitRun /\ [][RunNext]_vars

InitPhone == PhoneInit /\ NormIdle /\ ClassIdle /\ DrainIdle /\ RunIdle /\ ClientIdle
    /\ BridgeIdle /\ ConfigIdle

SpecPhone == InitPhone /\ [][PhoneNext]_vars

InitClient == ClientInit /\ NormIdle /\ ClassIdle /\ DrainIdle /\ RunIdle /\ PhoneIdle
    /\ BridgeIdle /\ ConfigIdle

SpecClient == InitClient /\ [][ClientNext]_vars

InitBridge ==
    BridgeInit /\ NormIdle /\ ClassIdle /\ DrainIdle /\ RunIdle /\ PhoneIdle /\ ClientIdle
        /\ ConfigIdle

SpecBridge == InitBridge /\ [][BridgeNext]_vars

InitConfig ==
    ConfigInit /\ NormIdle /\ ClassIdle /\ DrainIdle /\ RunIdle /\ PhoneIdle /\ ClientIdle
        /\ BridgeIdle

SpecConfig == InitConfig /\ [][ConfigNext]_vars

----------------------------------------------------------------------------
(* Terminal rendering, stated from the right end of the string: a character *)
(* is shown iff the backspaces after it do not reach it.  pending counts    *)
(* the backspaces still to be served.                                       *)

RECURSIVE Rendered(_, _)
Rendered(s, pending) ==
    IF s = <<>> THEN <<>>
    ELSE LET last == s[Len(s)]
             front == SubSeq(s, 1, Len(s) - 1)
         IN  IF last = BS THEN Rendered(front, pending + 1)
             ELSE IF pending > 0 THEN Rendered(front, pending - 1)
             ELSE Append(Rendered(front, 0), last)

----------------------------------------------------------------------------
(* Claims about the backspace normalizer *)

HasBackspace(s) == \E i \in 1..Len(s) : s[i] = BS

\* C1: process_backspaces(s) is the terminal rendering of s: every ordinary
\* character is appended, every backspace removes the most recently appended
\* character still in the buffer and is a no-op on an empty buffer (no error,
\* no underflow); 'AB<BS>C' gives 'AC', '<BS>A' gives 'A', '' gives ''.
C1_NormalizerRendersTerminal ==
    nPc # "in" =>
        /\ nOut = Rendered(nInput, 0)
        /\ ~HasBackspace(nOut)
        /\ Len(nOut) <= Len(nInput)
        /\ (nInput = <<"A", "B", BS, "C">> => nOut = <<"A", "C">>)
        /\ (nInput = <<BS, "A">> => nOut = <<"A">>)
        /\ (nInput = <<>> => nOut = <<>>)

\* a backspace met on an empty buffer and one met on a non-empty buffer, in
\* one normalized input
C1_Witness ==
    /\ nPc = "once"
    /\ nInput = <<BS, "A", "B", BS>>
    /\ nOut = <<"A">>

\* C2: normalizing the normalizer's own output changes nothing.
C2_NormalizerIdempotent ==
    nPc = "twice" => nOut2 = nOut

\* an input whose backspaces are not all adjacent to the character they
\* delete, normalized twice
C2_Witness ==
    /\ nPc = "twice"
    /\ nInput = <<"A", "B", BS, BS>>
    /\ nOut2 = <<>>

\* C3: a string with no backspace character is returned unchanged.
C3_NoBackspaceUnchanged ==
    (nPc # "in" /\ ~HasBackspace(nInput)) => nOut = nInput

\* a non-empty string of ordinary characters, normalized
C3_Witness ==
    /\ nPc = "once"
    /\ nInput = <<"C", "A", "B">>
    /\ nOut = <<"C", "A", "B">>

----------------------------------------------------------------------------
(* Claims about the pattern classifier *)

SameLetter(a, b) ==
    \/ a = b
    \/ \E k \in 1..Len(Lowers) : {a, b} = {Lowers[k], Uppers[k]}

\* pattern occurs in text, letter case ignored
OccursIn(text, pattern) ==
    \E i \in 1..(Len(text) - Len(pattern) + 1) :
        \A j \in 1..Len(pattern) : SameLetter(text[i + j - 1], pattern[j])

OccursAny(text, patterns) ==
    \E k \in 1..Len(patterns) : OccursIn(text, patterns[k])

\* the patterns each classifier consults first, and second
AbsentPatterns == IF cImpl = "checker" THEN SUBSCRIBER_NOT_FOUND_PATTERNS ELSE LegacyNotFoundPatterns

PresentPatterns == IF cImpl = "checker" THEN SUBSCRIBER_FOUND_PATTERNS ELSE LegacyFoundPatterns

\* C4: a text that holds an absent pattern, in any letter case, is classified
\* NOT FOUND, also when it holds a present pattern as well.
C4_AbsentWins ==
    (cPc = "done" /\ OccursAny(cText, AbsentPatterns)) => cFound = FALSE

\* "unknown Subscriber INFORMATION" holds UNKNOWN SUBSCRIBER and SUBSCRIBER
\* INFORMATION and has been classified
C4_Witness ==
    /\ cPc = "done"
    /\ cImpl = "checker"
    /\ OccursIn(cText, UNKNOWN_SUBSCRIBER)
    /\ OccursIn(cText, SUBSCRIBER_INFORMATION)
    /\ cFound = FALSE

\* C5: a text that holds a present pattern, in any letter case, and no absent
\* pattern is classified FOUND.
C5_PresentFound ==
    (/\ cPc = "done"
     /\ OccursAny(cText, PresentPatterns)
     /\ ~OccursAny(cText, AbsentPatterns)) => cFound = TRUE

\* a text whose only pattern is "Mobile Country Code", classified FOUND
C5_Witness ==
    /\ cPc = "done"
    /\ cImpl = "checker"
    /\ cText = FragNoise \o FragCountryCode
    /\ cFound = TRUE

\* C6: a text that holds no pattern of either list is classified NOT FOUND
\* and logged at WARNING level; a text that holds an absent pattern is
\* classified NOT FOUND and logged at INFO level, so the two are told apart.
C6_AmbiguousWarns ==
    cPc = "done" =>
        /\ Len(cLog) = 1
        /\ (~OccursAny(cText, AbsentPatterns) /\ ~OccursAny(cText, PresentPatterns))
               => (cFound = FALSE /\ cLog[1] = AmbiguousRecord)
        /\ OccursAny(cText, AbsentPatterns)
               => (cFound = FALSE /\ cLog[1] = NotPresentRecord)
        /\ AmbiguousRecord[1] # NotPresentRecord[1]

\* a text of fragments that spell no pattern, classified
C6_Witness ==
    /\ cPc = "done"
    /\ cImpl = "checker"
    /\ cText = FragSubscriber \o FragNoise \o FragInformation
    /\ cLog = <<AmbiguousRecord>>

----------------------------------------------------------------------------
(* Claims about the drainer *)

RECURSIVE DecodedText(_)
\* the text of the chunks received, in arrival order
DecodedText(chunks) ==
    IF chunks = <<>> THEN <<>>
    ELSE SelectSeq(Head(chunks), LAMBDA c : c # BAD) \o DecodedText(Tail(chunks))

\* C7: the drain of MMLClient returns the text of all chunks it read, in
\* arrival order, rendered once as a terminal would (backspaces applied
\* across chunk boundaries); 'AB' then silence gives 'AB', a channel that
\* never yields bytes gives ''.
C7_DrainReturnsAllChunks ==
    (dPc = "returned" /\ dImpl = "mml") =>
        /\ dResult = Rendered(DecodedText(chRecvd), 0)
        /\ (chRecvd = <<ChunkAB>> => dResult = <<"A", "B">>)
        /\ (chRecvd = <<>> => dResult = <<>>)

\* 'AB' and then '<BS>C' were read and the drain ended by idle timeout
C7_Witness ==
    /\ dPc = "returned"
    /\ dImpl = "mml"
    /\ dExit = "idle"
    /\ chRecvd = <<ChunkAB, ChunkBsC>>
    /\ dResult = <<"A", "C">>

\* C8: every drain returns, no later than the timeout plus one poll after
\* the last byte it read; on a silent channel it returns one poll after the
\* timeout, counted from the start of the drain.
C8_DrainBounded ==
    /\ [](dPc = "loop" => now - dLastByte <= dTimeout)
    /\ [](dPc = "returned" => now - dLastByte <= dTimeout + PollTicks)
    /\ []((dPc = "returned" /\ dExit = "idle" /\ chRecvd = <<>>)
             => now - dBegin = dTimeout + PollTicks)
    /\ (dPc = "loop" ~> dPc = "returned")

\* a drain with READ_TIMEOUT that read a chunk after the clock started and
\* returned by idle timeout
C8_Witness ==
    /\ dPc = "returned"
    /\ dExit = "idle"
    /\ dTimeout = READ_TIMEOUT
    /\ chRecvd # <<>>
    /\ dLastByte > dBegin
    /\ now - dLastByte = READ_TIMEOUT + PollTicks

\* C9: the idle time is counted from the last chunk appended, not from the
\* start of the drain: while the loop runs start is the time of that chunk,
\* and an idle timeout means more than the timeout has passed since it.
C9_IdleTimerReset ==
    /\ dPc = "loop" => dStart = dLastByte
    /\ dExit = "idle" => now - dLastByte > dTimeout

\* the loop is still running after more than twice the timeout, because
\* chunks kept arriving
C9_Witness ==
    /\ dPc = "loop"
    /\ Len(chRecvd) = MaxChunks
    /\ now - dBegin > 2 * dTimeout
    /\ now - dLastByte <= dTimeout

\* C10: a read that returns no data or raises socket.timeout ends the drain:
\* it returns the text accumulated so far and no exception leaves it.
C10_TransportEndsDrain ==
    /\ dRaised = FALSE
    /\ dPc # "raised"
    /\ dExit \in {"closed", "recv_timeout"} =>
           /\ dPc = "returned"
           /\ dResult = IF dImpl = "mml"
                         THEN Rendered(DecodedText(chRecvd), 0)
                         ELSE DecodedText(chRecvd)

\* socket.timeout was raised after a chunk had been read, and the drain
\* returned that chunk
C10_Witness ==
    /\ dPc = "returned"
    /\ dExit = "recv_timeout"
    /\ dImpl = "mml"
    /\ chRecvd = <<ChunkAB>>
    /\ dResult = <<"A", "B">>

----------------------------------------------------------------------------
(* The run: sessions, error handling and sequencing *)

\* the check of server rIdx has returned or raised
CheckFinished == rPc \in {"checked", "crashed"}

\* C11: on every exit path of a per-server check of SubscriberChecker every
\* channel and connection that was opened is closed before the check returns
\* or raises: no state has the check finished with the connection or the
\* channel still open.
C11_ClosedOnEveryExit ==
    rImpl = "search" /\ CheckFinished =>
        rConn[rIdx] # "open" /\ rChan[rIdx] # "open"

\* C12: no error arising during one server's check propagates out of
\* check_msisdn and aborts the run of search_msisdn: the run never ends on an
\* exception, so every check is followed by its record and by the remaining
\* servers.
C12_NoErrorAbortsRun ==
    rImpl = "search" => rPc # "crashed"

\* C13: when opening the connection fails, the check returns found = False
\* with a text that carries the underlying error text, and raises nothing.
C13_ConnectFailureCarriesError ==
    rPc = "checked" /\ rError \in ConnectErrors =>
        /\ rFound = FALSE
        /\ Contains(rText, rError)

----------------------------------------------------------------------------
\* connect() of server rIdx returned False
ConnectFailed == rPc = "checked" /\ rError # <<>>

NotFoundLine(i) == <<ServerNames[i], " (", ServerIps[i], ") - ", "NOT FOUND">>

FoundLine(i) == <<ServerNames[i], " (", ServerIps[i], ") - ", "FOUND">>

\* C14: when the connection to a server cannot be established, the step that
\* follows records that server as NOT FOUND and goes on to the next
\* configured server without ending the run; no call of connect ends the run,
\* and the run ends without FOUND only after every server was tried.
C14_ConnectFailureContinues ==
    [][rImpl = "search" =>
        /\ ConnectFailed =>
            /\ report' = Append(report, NotFoundLine(rIdx))
            /\ rIdx' = rIdx + 1
            /\ rPc' = "loop"
            /\ rExit' = "none"
        /\ rPc = "loop" => rPc' # "crashed"
        /\ rPc = "loop" /\ rPc' = "exited" =>
            rContacted = [i \in 1..rN |-> i]]_vars

\* server 1 could not be connected, was recorded, and server 2 is being tried
C14_Witness ==
    /\ rImpl = "search"
    /\ rContacted = <<1, 2>>
    /\ rConn[1] = "none"
    /\ rPc = "shell"
    /\ report = HeaderLines \o <<NotFoundLine(1)>>

----------------------------------------------------------------------------
\* an early-termination marker occurs in text, letter case ignored
HasMarker(text) == OccursAny(text, <<UNKNOWN_SUBSCRIBER, DX_ERROR>>)

\* the session of server rIdx ran its commands and ended by itself
SessionEnded == rPc = "checked" /\ rError = <<>> /\ rOutputs # <<>>

\* C15: after each command's drain the markers UNKNOWN SUBSCRIBER and DX ERROR
\* are looked for in the chunk just returned only: a command is sent only
\* while no chunk returned so far holds a marker, and a session that ended
\* before the last command ended on a chunk that holds a marker itself.
C15_MarkerInLastChunkOnly ==
    /\ rPc \in {"send", "drain"} =>
        \A i \in 1..Len(rOutputs) : ~HasMarker(rOutputs[i].output)
    /\ SessionEnded =>
        /\ \A i \in 1..(Len(rOutputs) - 1) : ~HasMarker(rOutputs[i].output)
        /\ rFoundError = HasMarker(rOutputs[Len(rOutputs)].output)
        /\ Len(rOutputs) < Len(Commands(rImpl)) => rFoundError

\* "unknown " then "Subscriber": the marker spans two chunks and is in neither,
\* and the third command has been sent
C15_Witness ==
    /\ rImpl = "main"
    /\ rPc = "drain"
    /\ rCmd = 3
    /\ rOutputs[1].output = FragUnknown
    /\ rOutputs[2].output = FragSubscriber

----------------------------------------------------------------------------
RECURSIVE SentTo(_, _)
\* the commands sent to server i, in order
SentTo(sent, i) ==
    IF sent = <<>> THEN <<>>
    ELSE IF sent[1][1] = i THEN <<sent[1][2]>> \o SentTo(Tail(sent), i)
         ELSE SentTo(Tail(sent), i)

\* the commands sent to each server are a prefix of the fixed sequence
SentInOrder ==
    \A i \in ServerIds :
        /\ Len(SentTo(rSent, i)) <= Len(Commands(rImpl))
        /\ SentTo(rSent, i) = SubSeq(Commands(rImpl), 1, Len(SentTo(rSent, i)))

\* command k + 1 is sent only after the drain of command k has returned
DrainBeforeNextSend ==
    rPc \in {"send", "drain"} =>
        Len(SentTo(rSent, rIdx)) = Len(rOutputs) + (IF rPc = "drain" THEN 1 ELSE 0)

\* a server contacted earlier than another has no connection or channel open
OneSessionAtATime ==
    \A j \in 2..Len(rContacted) :
        /\ rConn[rContacted[j - 1]] # "open"
        /\ rChan[rContacted[j - 1]] # "open"

\* C16: operations are strictly sequential: within a session the commands sent
\* are a prefix of the fixed command sequence, command k + 1 is sent only
\* after the drain of command k returned, and the session with one server has
\* ended before the next server is contacted.
C16_StrictlySequential ==
    rImpl = "search" => SentInOrder /\ DrainBeforeNextSend /\ OneSessionAtATime

----------------------------------------------------------------------------
\* the run is over: search_msisdn or main returned
RunReturned == rPc = "exited"

\* C17: the command-line tool exits with code 0 if the subject was classified
\* FOUND on a server and with code 1 otherwise, and a FOUND verdict writes the
\* report line "<ServerName> (<ip>) - FOUND".
C17_ExitCodeAndFoundLine ==
    RunReturned =>
        /\ rExit = (IF rFound THEN "0" ELSE "1")
        /\ rFound => \E k \in 1..Len(report) : report[k] = FoundLine(rIdx)

\* the verdict lines of servers 1..n, all NOT FOUND but the last when found
VerdictLines(n, found) ==
    [i \in 1..n |-> IF found /\ i = n THEN FoundLine(i) ELSE NotFoundLine(i)]

\* the blank line, the rule and the overall verdict
Closing(found) ==
    << <<>>, <<"============================================================">>,
       <<IF found THEN "RESULT: MSISDN found on one or more servers"
         ELSE "RESULT: MSISDN not found on any server">> >>

C19_AllNotFound ==
    rImpl = "search" /\ rExit # "none" /\ ~(RunReturned /\ rFound) =>
        /\ rContacted = [i \in 1..rN |-> i]
        /\ report = HeaderLines \o VerdictLines(rN, FALSE) \o Closing(FALSE)
        /\ rExit = "1"

\* the same for the runs that no exception aborts
AllNotFoundOnReturn ==
    rImpl = "search" /\ RunReturned /\ ~rFound =>
        /\ rContacted = [i \in 1..rN |-> i]
        /\ report = HeaderLines \o VerdictLines(rN, FALSE) \o Closing(FALSE)
        /\ rExit = "1"

----------------------------------------------------------------------------
(* The device bridge *)

\* C20: connect_device decides success by the textual markers in the captured
\* standard output: it returns True exactly when adb connect returned, a
\* "connected" marker is in the output and no "unable to connect" marker is;
\* a zero exit code on its own never makes it return True.
C20_ConnectDecidedByOutput ==
    pPc = "done" =>
        pResult = (/\ pRaised = "none"
                   /\ OccursIn(pStdout, CONNECTED)
                   /\ ~OccursIn(pStdout, UNABLE_TO_CONNECT))

----------------------------------------------------------------------------
\* the verdict read off the raw outputs of the commands alone
VerdictOf(outputs, absent, present) ==
    /\ \A i \in 1..Len(outputs) : ~OccursAny(outputs[i].output, absent)
    /\ \E i \in 1..Len(outputs) : OccursAny(outputs[i].output, present)

\* C24: the text of the banner drain is discarded: no command is sent to a
\* server before its banner drain has returned, and the verdict of a session
\* is a function of the outputs of its commands, whatever the banner was.
C24_BannerDiscarded ==
    rImpl = "search" =>
        /\ rPc \in {"loop", "shell", "banner"} => SentTo(rSent, rIdx) = <<>>
        /\ SessionEnded =>
            rFound = VerdictOf(rOutputs, SUBSCRIBER_NOT_FOUND_PATTERNS,
                               SUBSCRIBER_FOUND_PATTERNS)

\* the banner reads SUBSCRIBER INFORMATION, the command returns nothing, and
\* the verdict is NOT FOUND
C24_Witness ==
    /\ rImpl = "search"
    /\ SessionEnded
    /\ rBanner = SUBSCRIBER_INFORMATION
    /\ rOutputs[1].output = <<>>
    /\ rFound = FALSE

----------------------------------------------------------------------------
RECURSIVE CountLines(_, _)
\* how many lines of the report are in the set
CountLines(lines, set) ==
    IF lines = <<>> THEN 0
    ELSE (IF lines[1] \in set THEN 1 ELSE 0) + CountLines(Tail(lines), set)

FinalLines ==
    {<<"RESULT: MSISDN found on one or more servers">>,
     <<"RESULT: MSISDN not found on any server">>}

\* the verdict lines of server i, as each tool writes them
LinesOf(i) ==
    {NotFoundLine(i), FoundLine(i),
     <<ServerNames[i], " (", ServerIps[i], ") - Found=", "True">>,
     <<ServerNames[i], " (", ServerIps[i], ") - Found=", "False">>}

\* C25: the servers are contacted in configuration order and the search stops
\* at the first server classified FOUND: after a FOUND verdict was recorded
\* no later server is contacted and the report has no verdict line of a later
\* server; search_msisdn writes the final verdict line exactly once, as the
\* last line, and never before it returns.
C25_StopsAtFirstFound ==
    /\ rContacted = [i \in 1..Len(rContacted) |-> i]
    /\ RunReturned /\ rFound =>
        /\ Len(rContacted) = rIdx
        /\ \A i \in ServerIds : i > rIdx => CountLines(report, LinesOf(i)) = 0
        /\ CountLines(report, LinesOf(rIdx)) = 1
    /\ rImpl = "search" =>
        /\ CountLines(report, FinalLines) = (IF RunReturned THEN 1 ELSE 0)
        /\ RunReturned => report[Len(report)] \in FinalLines

\* two servers, the second never contacted: the first was classified FOUND
C25_Witness ==
    /\ RunReturned
    /\ rFound
    /\ rN = 2
    /\ rContacted = <<1>>
    /\ rConn[2] = "none"

----------------------------------------------------------------------------
\* C29: whenever a command sequence is cut short by an early-termination
\* marker in a command's chunk, the classifier's verdict for that server is
\* NOT FOUND.
C29_EarlyStopIsNotFound ==
    SessionEnded /\ HasMarker(rOutputs[Len(rOutputs)].output) => rFound = FALSE

----------------------------------------------------------------------------
(* MMLClient used outside a session *)

\* C30: execute_command sends bytes only on an open session: called before a
\* successful connect() (a with-block whose connect failed included) or after
\* disconnect(), it raises RuntimeError and sends nothing.
C30_ExecuteNeedsSession ==
    mLast = "execute" /\ ~mConnected =>
        mRaised = "RuntimeError" /\ ~mSentNow

----------------------------------------------------------------------------
(* The device bridge *)

\* the places where pattern starts in text
StartsOf(text, pattern) ==
    {i \in 1..(Len(text) - Len(pattern) + 1) :
        SubSeq(text, i, i + Len(pattern) - 1) = pattern}

\* the characters from place i up to the next blank or line end
WordAt(text, i) ==
    LET stops == {k \in i..Len(text) : text[k] \in {" ", "\n", "\t", "\r"}}
        end == IF stops = {} THEN Len(text) + 1
               ELSE CHOOSE k \in stops : \A j \in stops : k <= j
    IN  SubSeq(text, i, end - 1)

\* the value of the mCallState field of a dump that holds the field once
FieldValue(text) ==
    LET i == CHOOSE k \in StartsOf(text, M_CALL_STATE) : TRUE
    IN  WordAt(text, i + Len(M_CALL_STATE))

\* the state the field's value stands for; IDLE when absent or unparseable
StateOfDump(text) ==
    IF StartsOf(text, M_CALL_STATE) = {} THEN "IDLE"
    ELSE IF FieldValue(text) = <<"1">> THEN "RINGING"
    ELSE IF FieldValue(text) = <<"2">> THEN "OFFHOOK"
    ELSE "IDLE"

LastRun == bRuns[Len(bRuns)]

\* C21: get_call_state maps the value of the mCallState field of the dump to
\* IDLE (0), RINGING (1) or OFFHOOK (2) by that value and nothing else on the
\* line or in the dump, returns IDLE when the field is absent or its value is
\* unparseable, and UNKNOWN when the subprocess exits non-zero, times out or
\* raises.  Stated for dumps that hold the field at most once.
C21_CallStateByFieldValue ==
    bPc = "done" /\ bOp = "get_call_state"
        /\ Cardinality(StartsOf(bStdout, M_CALL_STATE)) <= 1 =>
        bResult = IF LastRun[3] = "0" THEN StateOfDump(bStdout) ELSE "UNKNOWN"

----------------------------------------------------------------------------
BridgeOperations ==
    {"connect_device", "disconnect_device", "make_call", "end_call", "answer_call",
     "get_call_state"}

\* the operation is over and its first subprocess met a missing tool or a
\* timeout
ToolFailed ==
    /\ bPc = "done"
    /\ bOp \in BridgeOperations
    /\ bRuns # <<>>
    /\ bRuns[1][3] \in {"TimeoutExpired", "FileNotFoundError"}

\* C22: every device-bridge operation (connect, disconnect, place-call,
\* end-call, answer, query-state) returns a failure value, False or UNKNOWN
\* for the state query, when the tool is missing or its subprocess times
\* out, and no exception escapes the operation.
C22_ToolFailureReturnsFailure ==
    ToolFailed =>
        bResult = (IF bOp = "get_call_state" THEN "UNKNOWN" ELSE "False")

----------------------------------------------------------------------------
\* the places in the history where command was run
RunsOf(command) == {k \in 1..Len(bRuns) : bRuns[k][1] = command}

\* C26: answer_call sends the answer key event only when the call state
\* queried immediately before is RINGING; in every other state it returns
\* False without any key event; once the key event exited with code 0 it
\* returns True, whatever the state query after it shows.
C26_AnswerOnlyWhenRinging ==
    bOp = "answer_call" =>
        /\ \A k \in RunsOf("keyevent 5") :
            /\ k = 2
            /\ bRuns[1] = <<"dumpsys", bDevice, "0">>
            /\ bState = "RINGING"
            /\ bRuns[k][2] = bDevice
        /\ bPc = "done" /\ bState # "RINGING" =>
            bResult = "False" /\ Len(bRuns) = 1
        /\ bPc = "done" /\ bState = "RINGING" =>
            bResult = Bool(bRuns[2][3] = "0")

\* the key event was sent, the query after it found the phone idle, and
\* answer_call returned True
C26_Witness ==
    /\ bOp = "answer_call"
    /\ bPc = "done"
    /\ bResult = "True"
    /\ Len(bRuns) = 3
    /\ StateOfDump(bStdout) = "IDLE"

----------------------------------------------------------------------------
\* the phones of the table other than the named one, in table order
OtherPhones ==
    LET RECURSIVE From(_)
        From(i) == IF i > bN THEN <<>>
                   ELSE (IF i # bDevice THEN <<i>> ELSE <<>>) \o From(i + 1)
    IN  From(1)

\* C27: end_call(device, end_all=True) sends the end-call key event to each
\* other configured phone only after the key event on the named device
\* exited with code 0; when that one fails no other phone is touched; the
\* return value reflects the named device only, whatever happens on the
\* other phones.
C27_EndAllAfterNamedDevice ==
    bOp = "end_call" /\ bEndAll /\ bRuns # <<>> =>
        /\ bRuns[1][1] = "keyevent 6" /\ bRuns[1][2] = bDevice
        /\ [k \in 1..(Len(bRuns) - 1) |-> bRuns[k + 1][2]]
               = SubSeq(OtherPhones, 1, Len(bRuns) - 1)
        /\ Len(bRuns) > 1 => bRuns[1][3] = "0"
        /\ bPc = "done" =>
            /\ bResult = Bool(bRuns[1][3] = "0")
            /\ Len(bRuns) = (IF bRuns[1][3] = "0" THEN 1 + Len(OtherPhones) ELSE 1)

\* three phones: the key event timed out on one of the other two and
\* end_call returned True
C27_Witness ==
    /\ bOp = "end_call" /\ bEndAll
    /\ bPc = "done"
    /\ bN = 3
    /\ Len(bRuns) = 3
    /\ bRuns[2][3] = "TimeoutExpired"
    /\ bRuns[3][3] = "1"
    /\ bResult = "True"

----------------------------------------------------------------------------
\* adb connect returned and its output says the device is connected
ConnectWorked(run) ==
    /\ run[3] \in {"0", "1"}
    /\ OccursIn(bConnOut, CONNECTED)
    /\ ~OccursIn(bConnOut, UNABLE_TO_CONNECT)

----------------------------------------------------------------------------
(* Configuration *)

\* the file is missing, holds nothing, or defines no entries
Unusable(file) ==
    \/ file.file \in {"missing", "empty"}
    \/ file.file = "doc" /\ (~file.key \/ file.val = "null" \/ file.n = 0)

\* C23: if the server list or the phone list is missing, empty or defines no
\* entries, loading it ends the process at once with a non-zero exit code
\* after printing a message, and no server or phone operation is ever started
\* with an empty configuration.
C23_EmptyConfigIsFatal ==
    /\ gPc \in {"phones", "loaded", "started"} =>
        ~Unusable(gServersFile) /\ gServers > 0 /\ gExit = "none"
    /\ gPc \in {"loaded", "started"} =>
        ~Unusable(gPhonesFile) /\ gPhones > 0
    /\ gPc = "exited" => gExit = "1" /\ gPrinted # <<>>

\* SERVERS.yaml is a document whose SERVERS key holds an empty mapping, and
\* the process has exited with code 1
C23_Witness ==
    /\ gPc = "exited"
    /\ gServersFile = [file |-> "doc", key |-> TRUE, val |-> "map", n |-> 0]
    /\ gExit = "1"
    /\ gPrinted = <<"ERROR loading">>

====
